---- MODULE Spec2Model ----
(***************************************************************************)
(* Model of the PTT scraper of src/Stockk_ui.py: the retrying fetcher      *)
(* PTTScraper._make_request, the listing extractor get_ptt_stock_posts     *)
(* with _extract_post_info and _get_post_content, and the sanitizer        *)
(* _clean_text.                                                            *)
(*                                                                         *)
(* Python values are tagged records: Str(s) is a str whose characters are  *)
(* the sequence s, None is Python's None.  A text is a sequence of         *)
(* one-character strings.                                                  *)
(***************************************************************************)
EXTENDS Integers, Sequences, FiniteSets, TLC

\* ---------------------------------------------------------------- bounds
MaxRetries == 3       \* max_retries ranges over 0..MaxRetries
MaxPosts == 3         \* num_posts ranges over 0..MaxPosts
MaxContainers == 3    \* a listing page has 0..MaxContainers containers
MaxLen == 5           \* sanitizer inputs have 0..MaxLen characters

\* ---------------------------------------------------------------- values
None == [tag |-> "None", val |-> <<>>]
Str(s) == [tag |-> "str", val |-> s]
IsStr(v) == v.tag = "str"

\* outcome of a call: a normal return or a raised exception
Ret(v) == [kind |-> "return", val |-> v]
Raise(e) == [kind |-> "raise", val |-> e]

\* ------------------------------------------------------------- sanitizer
\* characters matched by \s, by \w, and the punctuation of the allow-list
Whitespace == {" ", "\t", "\n"}
WordChars == {"a", "b", "c", "1", "2", "3", "4", "5", "6", "N", "A", "M"}
AllowedPunct == {".", ",", "!", "?"}

\* re.sub(r'\s+', ' ', text): every maximal run of whitespace becomes " "
RECURSIVE CollapseWhitespace(_)
CollapseWhitespace(t) ==
    IF t = <<>> THEN <<>>
    ELSE IF Head(t) \in Whitespace
         THEN IF Len(t) > 1 /\ t[2] \in Whitespace
              THEN CollapseWhitespace(Tail(t))
              ELSE <<" ">> \o CollapseWhitespace(Tail(t))
         ELSE <<Head(t)>> \o CollapseWhitespace(Tail(t))

\* the negated class of the second re.sub: the characters that are deleted
Disallowed(c) == c \notin (WordChars \cup Whitespace \cup AllowedPunct)

\* re.sub(r'[^...]', '', text)
RemoveSpecial(t) == SelectSeq(t, LAMBDA c : ~Disallowed(c))

\* str.strip()
RECURSIVE LStrip(_)
LStrip(t) ==
    IF t # <<>> /\ Head(t) \in Whitespace THEN LStrip(Tail(t)) ELSE t

RECURSIVE RStrip(_)
RStrip(t) ==
    IF t # <<>> /\ t[Len(t)] \in Whitespace
    THEN RStrip(SubSeq(t, 1, Len(t) - 1)) ELSE t

Strip(t) == RStrip(LStrip(t))

\* PTTScraper._clean_text
_clean_text(t) == Strip(RemoveSpecial(CollapseWhitespace(t)))

\* ------------------------------------------------------- listing markup
\* A post-entry container (div.r-ent) is one of
\*   "ok"      div.title with <a href=...>, div.author and div.date present
\*   "nometa"  div.title with <a href=...>, no div.author and no div.date
\*   "notitle" no div.title, or a div.title without <a> (deleted post)
\*   "nohref"  div.title with an <a> that has no href attribute
Kinds == {"ok", "nometa", "notitle", "nohref"}

Digits == <<"1", "2", "3", "4", "5", "6">>

\* raw texts of the i-th container, and the body text of a post page
TitleText(i) == <<" ", "a", "@", Digits[i], "\n">>
AuthorText == <<"a", "\t", " ", "b">>
DateText == <<" ", "1", "/", "2">>
ContentText == <<"\n", "c", "!", "&", "\n", "\n", "c">>
Href(i) == <<"/", "M", Digits[i]>>

BaseOrigin ==
    <<"h", "t", "t", "p", "s", ":", "/", "/",
      "w", "w", "w", ".", "p", "t", "t", ".", "c", "c">>

NA == <<"N", "/", "A">>

\* the three fixed sentences _get_post_content returns instead of a body
Unavailable == <<"cannot fetch post content">>
NotFound == <<"cannot find post content">>
ErrorText == <<"error while fetching post content">>

\* a post page: with #main-content, without it, or one whose processing raises
\* (html.parser raising on the body, e.g. RecursionError on deep nesting)
PageKinds == {"ok", "nomain", "raises"}

\* the listing of the example: five well-formed entries
FivePosts == [j \in 1..5 |-> "ok"]

\* the listing pages tried: every page of up to MaxContainers containers whose
\* well-formed entries either all carry author and date or all lack them,
\* and the page of the example
Pages ==
    {p \in UNION {[1..n -> Kinds] : n \in 0..MaxContainers} :
        ~(\E j \in 1..Len(p) : p[j] = "ok") \/ ~(\E j \in 1..Len(p) : p[j] = "nometa")}
    \cup {FivePosts}

\* --------------------------------------------------------- _make_request
\* range(self.max_retries): the loop runs while attempt < max_retries
\* variant: range(self.max_retries + 1)
InRange_OffByOne(a, m) == a <= m

InRange(a, m) == a < m

\* if attempt < self.max_retries - 1: time.sleep(...)
\* variant: if attempt < self.max_retries
ShouldSleep_AfterLast(a, m) == a < m

ShouldSleep(a, m) == a < m - 1

\* `if not response`: None is falsy; a response that passed
\* raise_for_status() has ok = True and is truthy
\* variant: the check is left out
IsFalsy_Never(r) == FALSE

IsFalsy(r) == r = None

\* soup.find_all('div', class_='r-ent')[:num_posts], for num_posts >= 0
\* variant: [:num_posts + 1]
Sliced_OffByOne(p, n) == SubSeq(p, 1, IF n + 1 < Len(p) THEN n + 1 ELSE Len(p))

Sliced(p, n) == SubSeq(p, 1, IF n < Len(p) THEN n ELSE Len(p))

\* ----------------------------------------------------- _extract_post_info
\* variant: a container without title link gets a default title and is kept
ExtractBody_DefaultTitle(k, i) ==
    IF k = "nohref" THEN Raise("KeyError")
    ELSE Ret([title |-> Str(_clean_text(IF k = "notitle" THEN NA ELSE Strip(TitleText(i)))),
              link |-> Str(BaseOrigin \o Href(i)),
              author |-> Str(_clean_text(IF k = "ok" THEN Strip(AuthorText) ELSE NA)),
              date |-> Str(_clean_text(IF k = "ok" THEN Strip(DateText) ELSE NA))])

\* variant: link = title_tag.a['href'], the origin is not prefixed
ExtractBody_RelativeLink(k, i) ==
    IF k = "notitle" THEN Ret(None)
    ELSE IF k = "nohref" THEN Raise("KeyError")
    ELSE Ret([title |-> Str(_clean_text(Strip(TitleText(i)))),
              link |-> Str(Href(i)),
              author |-> Str(_clean_text(IF k = "ok" THEN Strip(AuthorText) ELSE NA)),
              date |-> Str(_clean_text(IF k = "ok" THEN Strip(DateText) ELSE NA))])

\* body of the try block
ExtractBody(k, i) ==
    IF k = "notitle" THEN Ret(None)
    ELSE IF k = "nohref" THEN Raise("KeyError")
    ELSE Ret([title |-> Str(_clean_text(Strip(TitleText(i)))),
              link |-> Str(BaseOrigin \o Href(i)),
              author |-> Str(_clean_text(IF k = "ok" THEN Strip(AuthorText) ELSE NA)),
              date |-> Str(_clean_text(IF k = "ok" THEN Strip(DateText) ELSE NA))])

\* try ... except Exception: log error, return None
_extract_post_info(k, i) ==
    LET r == ExtractBody(k, i)
    IN IF r.kind = "raise" THEN Ret(None) ELSE r

\* ----------------------------------------------------- _get_post_content
\* variant: a failed fetch returns None instead of the sentence
ContentBody_NoneOnFailure(r, pk) ==
    IF IsFalsy(r) THEN Ret(None)
    ELSE IF pk = "raises" THEN Raise("Exception")
    ELSE IF pk = "nomain" THEN Ret(Str(NotFound))
    ELSE Ret(Str(_clean_text(Strip(ContentText))))

\* variant: a failed fetch returns the "cannot find" sentence
ContentBody_WrongSentence(r, pk) ==
    IF IsFalsy(r) THEN Ret(Str(NotFound))
    ELSE IF pk = "raises" THEN Raise("Exception")
    ELSE IF pk = "nomain" THEN Ret(Str(NotFound))
    ELSE Ret(Str(_clean_text(Strip(ContentText))))

\* body of the try block
ContentBody(r, pk) ==
    IF IsFalsy(r) THEN Ret(Str(Unavailable))
    ELSE IF pk = "raises" THEN Raise("Exception")
    ELSE IF pk = "nomain" THEN Ret(Str(NotFound))
    ELSE Ret(Str(_clean_text(Strip(ContentText))))

\* variant: no except clause, the exception reaches the loop body's handler
_get_post_content_NoCatch(r, pk) == ContentBody(r, pk)

\* try ... except Exception: log error, return the error sentence
_get_post_content(r, pk) ==
    LET c == ContentBody(r, pk)
    IN IF c.kind = "raise" THEN Ret(Str(ErrorText)) ELSE c

\* post_info['content'] = content
WithContent(p, c) ==
    [title |-> p.title, link |-> p.link, author |-> p.author,
     date |-> p.date, content |-> c]

\* ----------------------------------------------------------------- state
VARIABLES
    max_retries,  \* self.max_retries
    num_posts,    \* argument num_posts of get_ptt_stock_posts
    page,         \* the r-ent containers of the listing page, in document order
    pc,           \* "start", "request", "sleep", "returned", "loop", "done", "clean"
    caller,       \* who is in _make_request: "listing" or "content"
    attempt,      \* loop variable of _make_request (0-based)
    flog,         \* what the current _make_request call did: "ok", "fail", "sleep"
    warnings,     \* logger.warning calls of the current _make_request call
    response,     \* return value of the last _make_request call: None or a response
    listing,      \* the variable `response` of get_ptt_stock_posts, Unset before line 58
    i,            \* 1-based position of the container the for loop is at
    post_info,    \* post_info of the container whose content is being fetched
    posts_data,   \* the list being built
    result,       \* outcome of get_ptt_stock_posts once pc = "done"
    totalGets,    \* session.get calls made so far in this call of get_ptt_stock_posts
    fetched,      \* positions of the containers a content fetch was issued for
    raisedAt,     \* positions of the containers whose content handling raised
    text,         \* sanitizer: the input text
    once,         \* sanitizer: _clean_text(text)
    twice,        \* sanitizer: _clean_text(_clean_text(text))
    cpc           \* sanitizer: "input", "once", "twice", or "off"

vars == <<max_retries, num_posts, page, pc, caller, attempt, flog, warnings,
          response, listing, i, post_info, posts_data, result, totalGets, fetched, raisedAt,
          text, once, twice, cpc>>

inputs == <<max_retries, num_posts, page>>
fetchVars == <<caller, attempt, flog, warnings, response, totalGets>>
loopVars == <<listing, i, post_info, posts_data, result, fetched, raisedAt>>
cleanVars == <<text, once, twice, cpc>>

Pending == [kind |-> "pending", val |-> <<>>]
Unset == [tag |-> "unset", val |-> <<>>]

Init ==
    /\ max_retries \in 0..MaxRetries
    /\ num_posts \in 0..MaxPosts
    /\ page \in Pages
    /\ pc = "start"
    /\ caller = "none"
    /\ attempt = 0
    /\ flog = <<>>
    /\ warnings = 0
    /\ response = None
    /\ listing = Unset
    /\ i = 1
    /\ post_info = None
    /\ posts_data = <<>>
    /\ result = Pending
    /\ totalGets = 0
    /\ fetched = <<>>
    /\ raisedAt = {}
    /\ text = <<>> /\ once = <<>> /\ twice = <<>> /\ cpc = "off"

\* entry of _make_request
EnterRequest(who) ==
    /\ caller' = who
    /\ attempt' = 0
    /\ flog' = <<>>
    /\ warnings' = 0
    /\ response' = None
    /\ pc' = "request"

\* entry of get_ptt_stock_posts: response = self._make_request(url)
get_ptt_stock_posts ==
    /\ pc = "start"
    /\ EnterRequest("listing")
    /\ UNCHANGED <<inputs, loopVars, totalGets, cleanVars>>

\* one iteration of the retry loop whose GET succeeds: return response
AttemptOk ==
    /\ pc = "request"
    /\ InRange(attempt, max_retries)
    /\ flog' = Append(flog, "ok")
    /\ totalGets' = totalGets + 1
    /\ response' = [tag |-> "response", val |-> <<attempt + 1>>]
    /\ pc' = "returned"
    /\ UNCHANGED <<inputs, loopVars, caller, attempt, warnings, cleanVars>>

\* one iteration whose GET or raise_for_status raises RequestException:
\* a warning is logged, then the loop sleeps or goes straight on
AttemptFail ==
    /\ pc = "request"
    /\ InRange(attempt, max_retries)
    /\ flog' = Append(flog, "fail")
    /\ totalGets' = totalGets + 1
    /\ warnings' = warnings + 1
    /\ IF ShouldSleep(attempt, max_retries)
       THEN pc' = "sleep" /\ attempt' = attempt
       ELSE pc' = "request" /\ attempt' = attempt + 1
    /\ UNCHANGED <<inputs, loopVars, caller, response, cleanVars>>

\* time.sleep(self.retry_delay + random.uniform(1, 3)) ends; continue
Sleep ==
    /\ pc = "sleep"
    /\ flog' = Append(flog, "sleep")
    /\ attempt' = attempt + 1
    /\ pc' = "request"
    /\ UNCHANGED <<inputs, loopVars, caller, warnings, response, totalGets, cleanVars>>

\* the range is exhausted: return None
Exhausted ==
    /\ pc = "request"
    /\ ~InRange(attempt, max_retries)
    /\ response' = None
    /\ pc' = "returned"
    /\ UNCHANGED <<inputs, loopVars, caller, attempt, flog, warnings, totalGets, cleanVars>>

\* the listing fetch returned nothing: return []
ListingFailed ==
    /\ pc = "returned" /\ caller = "listing"
    /\ IsFalsy(response)
    /\ listing' = response
    /\ result' = Ret(<<>>)
    /\ pc' = "done"
    /\ UNCHANGED <<inputs, fetchVars, i, post_info, posts_data, fetched, raisedAt, cleanVars>>

\* the listing fetch returned a response: parse it, posts_data = []
ListingParsed ==
    /\ pc = "returned" /\ caller = "listing"
    /\ ~IsFalsy(response)
    /\ listing' = response
    /\ posts_data' = <<>>
    /\ i' = 1
    /\ pc' = "loop"
    /\ UNCHANGED <<inputs, fetchVars, post_info, result, fetched, raisedAt, cleanVars>>

\* the for loop is over: return posts_data
LoopDone ==
    /\ pc = "loop"
    /\ i > Len(Sliced(page, num_posts))
    /\ result' = Ret(posts_data)
    /\ pc' = "done"
    /\ UNCHANGED <<inputs, fetchVars, listing, i, post_info, posts_data, fetched, raisedAt, cleanVars>>

\* one container: _extract_post_info gives nothing (or raised, which the
\* handler of the loop body logs): go on with the next container
LoopSkip ==
    /\ pc = "loop"
    /\ i <= Len(Sliced(page, num_posts))
    /\ LET r == _extract_post_info(Sliced(page, num_posts)[i], i)
       IN r.kind = "raise" \/ r.val = None
    /\ i' = i + 1
    /\ UNCHANGED <<inputs, pc, fetchVars, listing, post_info, posts_data, result, fetched, raisedAt, cleanVars>>

\* one container with post info: content = self._get_post_content(link)
\* starts with its _make_request
LoopFetch ==
    /\ pc = "loop"
    /\ i <= Len(Sliced(page, num_posts))
    /\ LET r == _extract_post_info(Sliced(page, num_posts)[i], i)
       IN /\ r.kind = "return" /\ r.val # None
          /\ post_info' = r.val
    /\ fetched' = Append(fetched, i)
    /\ EnterRequest("content")
    /\ UNCHANGED <<inputs, listing, i, posts_data, result, totalGets, raisedAt, cleanVars>>

\* the content fetch returned: the rest of _get_post_content on a post page
\* of kind pk, then the entry is stored, or skipped if the call raised
ContentReturned ==
    /\ pc = "returned" /\ caller = "content"
    /\ \E pk \in PageKinds :
         LET c == _get_post_content(response, pk)
         IN /\ posts_data' = IF c.kind = "raise" THEN posts_data
                             ELSE Append(posts_data, WithContent(post_info, c.val))
            /\ raisedAt' = IF ContentBody(response, pk).kind = "raise"
                           THEN raisedAt \cup {i} ELSE raisedAt
    /\ post_info' = None
    /\ i' = i + 1
    /\ pc' = "loop"
    /\ UNCHANGED <<inputs, fetchVars, listing, result, fetched, cleanVars>>

\* The handler of lines 78-80 has no action: between lines 57 and 77 only
\* _make_request and the html.parser run outside the loop body's own try, and
\* every exception the model lets happen is an Exception that is caught
\* further in (lines 47, 109, 132).
Next ==
    \/ get_ptt_stock_posts
    \/ AttemptOk
    \/ AttemptFail
    \/ Sleep
    \/ Exhausted
    \/ ListingFailed
    \/ ListingParsed
    \/ LoopDone
    \/ LoopSkip
    \/ LoopFetch
    \/ ContentReturned

Spec == Init /\ [][Next]_vars

\* ------------------------------------------------- sanitizer on its own
Alphabet == {"a", " ", "\t", "@", "!"}

Texts == UNION {[1..n -> Alphabet] : n \in 0..MaxLen}

InitClean ==
    /\ text \in Texts
    /\ once = <<>> /\ twice = <<>> /\ cpc = "input"
    /\ max_retries = 0 /\ num_posts = 0 /\ page = <<>>
    /\ pc = "clean"
    /\ caller = "none"
    /\ attempt = 0
    /\ flog = <<>>
    /\ warnings = 0
    /\ response = None
    /\ listing = Unset
    /\ i = 1
    /\ post_info = None
    /\ posts_data = <<>>
    /\ result = Pending
    /\ totalGets = 0
    /\ fetched = <<>>
    /\ raisedAt = {}

\* y = _clean_text(x)
CleanOnce ==
    /\ cpc = "input"
    /\ once' = _clean_text(text)
    /\ cpc' = "once"
    /\ UNCHANGED <<inputs, pc, fetchVars, loopVars, text, twice>>

\* z = _clean_text(y)
CleanTwice ==
    /\ cpc = "once"
    /\ twice' = _clean_text(once)
    /\ cpc' = "twice"
    /\ UNCHANGED <<inputs, pc, fetchVars, loopVars, text, once>>

NextClean == CleanOnce \/ CleanTwice

SpecClean == InitClean /\ [][NextClean]_vars

\* ============================================================ properties
Min(a, b) == IF a < b THEN a ELSE b
Count(q, x) == Cardinality({j \in 1..Len(q) : q[j] = x})
Attempts(q) == Count(q, "ok") + Count(q, "fail")

\* a container from which the code can build post info: it has a title
\* element with a nested link, and the link has an href
HasPostInfo(k) == k \in {"ok", "nometa"}

\* positions 1..n of page p that hold such a container, ascending
RECURSIVE UsableUpTo(_, _)
UsableUpTo(p, n) ==
    IF n = 0 THEN <<>>
    ELSE IF HasPostInfo(p[n]) THEN Append(UsableUpTo(p, n - 1), n)
         ELSE UsableUpTo(p, n - 1)

\* number of containers the loop iterates over
Taken == Min(num_posts, Len(page))

ListingSucceeded == listing.tag = "response"
ListingFailedAll == listing = None

LinkOf(j) == Str(BaseOrigin \o Href(j))
EntriesWithLink(q, j) == {k \in 1..Len(q) : q[k].link = LinkOf(j)}

\* the _make_request call has returned to its caller
CallReturned == pc \in {"returned", "loop", "done"}

C2_Idempotent == cpc = "twice" => twice = once

\* ------------------------------------------------------------------- C3
PostFields == {"title", "link", "author", "date", "content"}

\* C3: get_ptt_stock_posts returns at most count entries, and every entry
\* has exactly the five fields, each a non-null string.
C3_AtMostCountAllFields ==
    pc = "done" =>
        /\ result.kind = "return"
        /\ Len(result.val) <= num_posts
        /\ \A k \in 1..Len(result.val) :
             /\ DOMAIN result.val[k] = PostFields
             /\ \A f \in PostFields : IsStr(result.val[k][f])

\* count entries returned, one with the failed-fetch sentence as content
\* and one built from a container without author and date
C3_Witness ==
    /\ pc = "done" /\ num_posts > 1 /\ Len(result.val) = num_posts
    /\ \E k \in 1..Len(result.val) : result.val[k].content = Str(Unavailable)
    /\ \E k \in 1..Len(result.val) : result.val[k].author = Str(_clean_text(NA))

\* ------------------------------------------------------------------- C4
\* C4: a _make_request call makes at most max_retries GETs, never goes on
\* after a successful one, returns the response of its first successful
\* attempt, and returns None exactly when all max_retries attempts failed.
C4_FirstSuccessOrNone ==
    /\ Attempts(flog) <= max_retries
    /\ \A j \in 1..Len(flog) : flog[j] = "ok" => j = Len(flog)
    /\ CallReturned =>
         /\ response # None =>
              /\ flog # <<>> /\ flog[Len(flog)] = "ok"
              /\ response = [tag |-> "response", val |-> <<Attempts(flog)>>]
         /\ response = None <=> Count(flog, "fail") = max_retries

\* a call that failed once and then succeeded before its last attempt
C4_Witness ==
    /\ pc = "returned" /\ response # None
    /\ Count(flog, "fail") = 1 /\ Attempts(flog) < max_retries

\* ------------------------------------------------------------------- C5
\* C5: in _make_request every failed attempt that is followed by another
\* attempt is followed by exactly one sleep, there is no sleep after the
\* final attempt, and so a call whose first success is attempt k sleeps
\* k - 1 times and a call whose max_retries >= 1 attempts all fail sleeps
\* max_retries - 1 times (a call with max_retries = 0 never sleeps).
C5_SleepBetweenAttempts ==
    /\ \A j \in 1..Len(flog) :
         flog[j] = "sleep" => j > 1 /\ flog[j - 1] = "fail"
    /\ \A j \in 1..(Len(flog) - 1) :
         /\ flog[j] = "fail" => flog[j + 1] = "sleep"
         /\ flog[j] = "sleep" => flog[j + 1] \in {"ok", "fail"}
    /\ CallReturned =>
         /\ flog # <<>> => flog[Len(flog)] # "sleep"
         /\ response # None => Count(flog, "sleep") = Attempts(flog) - 1
         /\ (response = None /\ max_retries >= 1)
                => Count(flog, "sleep") = max_retries - 1
         /\ (response = None /\ max_retries = 0) => Count(flog, "sleep") = 0

\* a call that exhausted three or more attempts, and slept between them
C5_Witness ==
    /\ pc = "returned" /\ response = None
    /\ max_retries >= 3 /\ Count(flog, "sleep") = max_retries - 1

\* ------------------------------------------------------------------- C6
\* C6: the warnings logged by a fetch are as many as its failed attempts;
\* when every attempt of a content fetch failed, max_retries warnings were
\* logged and the entry's content is the "cannot fetch" sentence.
C6_WarningPerFailure ==
    /\ warnings = Count(flog, "fail")
    /\ (pc \in {"loop", "done"} /\ caller = "content" /\ response = None)
          => /\ warnings = max_retries
             /\ posts_data # <<>>
             /\ posts_data[Len(posts_data)].content = Str(Unavailable)

DefaultMaxRetries == 3

\* the default configuration: a content fetch failed three times
C6_Witness ==
    /\ pc = "loop" /\ caller = "content" /\ response = None
    /\ max_retries = DefaultMaxRetries /\ warnings = 3
    /\ posts_data[Len(posts_data)].content = Str(Unavailable)

\* ------------------------------------------------------------------- C7
\* C7: when the listing fetch fails on all attempts the call returns the
\* empty list, raises nothing, and issues no content fetch: its only GETs
\* are the max_retries attempts of the listing fetch.
C7_ListingFailureEmpty ==
    ListingFailedAll =>
        /\ fetched = <<>>
        /\ caller = "listing"
        /\ totalGets = max_retries
        /\ pc = "done" /\ result = Ret(<<>>)

\* the listing fetch of a page with usable entries failed on every attempt
C7_Witness ==
    /\ pc = "done" /\ ListingFailedAll /\ result = Ret(<<>>)
    /\ max_retries >= 2 /\ num_posts >= 1
    /\ Len(page) >= 1 /\ HasPostInfo(page[1])

\* ------------------------------------------------------------------- C8
\* C8 as stated: an exception in the info extraction or in the content
\* handling of an entry makes that entry be skipped, and only that entry.
C8_AsStated ==
    (pc = "done" /\ ListingSucceeded) =>
        /\ result.kind = "return"
        /\ \A j \in 1..Taken :
             (page[j] = "nohref" \/ j \in raisedAt)
                 => EntriesWithLink(result.val, j) = {}

\* C8 amended: an exception in the info extraction of an entry makes that
\* entry be skipped; an exception in its content handling keeps the entry,
\* with the error sentence as content. Either way every other entry of the
\* first count is processed, the entries collected so far are kept, and
\* the call returns normally.
C8_SkipOrErrorSentence ==
    (pc \in {"loop", "done"} /\ ListingSucceeded) =>
        /\ \A j \in 1..(i - 1) :
             /\ page[j] = "nohref" => EntriesWithLink(posts_data, j) = {}
             /\ HasPostInfo(page[j])
                    => Cardinality(EntriesWithLink(posts_data, j)) = 1
             /\ j \in raisedAt =>
                    \E k \in EntriesWithLink(posts_data, j) :
                        posts_data[k].content = Str(ErrorText)
        /\ pc = "done" => i = Taken + 1 /\ result = Ret(posts_data)

\* an entry whose extraction raised and a later one whose content handling
\* raised, between two entries that went through untouched
C8_Witness ==
    /\ pc = "done" /\ Len(result.val) = 2
    /\ page[1] = "nohref" /\ raisedAt = {2} /\ HasPostInfo(page[3])
    /\ result.val[1].content = Str(ErrorText)
    /\ result.val[2].content = Str(_clean_text(Strip(ContentText)))

\* ------------------------------------------------------------------- C9
\* C9: the returned entries are, in document order, those of the first
\* count containers that yield post info; each link is the base origin
\* followed by the entry's href; five well-formed entries and count = 3
\* give exactly the first three.
C9_DocumentOrder ==
    (pc = "done" /\ ListingSucceeded) =>
        LET U == UsableUpTo(page, Taken)
        IN /\ Len(result.val) = Len(U)
           /\ \A k \in 1..Len(U) :
                /\ result.val[k].link = Str(BaseOrigin \o Href(U[k]))
                /\ result.val[k].title = Str(_clean_text(Strip(TitleText(U[k]))))
           /\ (page = FivePosts /\ num_posts = 3) =>
                [k \in 1..Len(result.val) |-> result.val[k].link]
                    = <<LinkOf(1), LinkOf(2), LinkOf(3)>>

\* the example: five well-formed entries, count = 3
C9_Witness ==
    /\ pc = "done" /\ page = FivePosts /\ num_posts = 3
    /\ Len(result.val) = 3

\* ------------------------------------------------------------------ C10
InFetch == pc \in {"request", "sleep", "returned"}

\* C10: the listing fetch is over before any content fetch starts; a
\* content fetch is issued once for each of the first count containers
\* that yields post info and for no other; the loop stays at a container
\* until its content fetch is over; the GETs of a call number at most
\* max_retries * (1 + count).
C10_SequentialBounded ==
    /\ totalGets <= max_retries * (1 + num_posts)
    /\ (InFetch /\ caller = "listing") => fetched = <<>> /\ listing = Unset
    /\ fetched # <<>> => ListingSucceeded
    /\ (InFetch /\ caller = "content") =>
          /\ i <= Taken /\ HasPostInfo(page[i])
          /\ fetched = UsableUpTo(page, i)
    /\ pc = "loop" => fetched = UsableUpTo(page, i - 1)
    /\ (pc = "done" /\ ListingSucceeded) => fetched = UsableUpTo(page, Taken)

\* a first container skipped without a fetch, then the listing fetch and
\* each of the count - 1 content fetches used all their attempts
C10_Witness ==
    /\ pc = "done" /\ max_retries >= 2 /\ num_posts >= 2
    /\ totalGets = max_retries * num_posts
    /\ ~HasPostInfo(page[1]) /\ Len(fetched) = num_posts - 1

====
